---- MODULE Spec2Model ----
(***************************************************************************)
(* Model of the control loop of MPPT_Buck_Converter_ACS712.ino: sensor     *)
(* acquisition, the undervoltage wait, the four-mode arbiter (CV, CC, BP,  *)
(* MPPT), the perturb-and-observe tracker, the overvoltage lockout and the *)
(* clamp in front of the PWM output.                                       *)
(*                                                                         *)
(* The sketch computes in 32-bit floats.  The model computes in fixed      *)
(* point: volts, amps, watts and the pwm accumulator are integers counting *)
(* thousandths (mV, mA, mW, 1/1000 duty step); a division rounds to the    *)
(* nearest thousandth (RDiv).  Times are milliseconds, as millis() gives   *)
(* them; the behaviours checked end long before the unsigned long clock    *)
(* wraps (49 days), so a difference of two times is the plain difference.  *)
(* inputCurrent and the serial output are diagnostic only and are left     *)
(* out: no control decision reads them.                                    *)
(***************************************************************************)
EXTENDS Integers, Sequences, FiniteSets

\* ---------------------------------------------------------------- bounds

\* Number of sensor acquisitions (calls of readSensors) a behaviour may make.
MaxReads == 3

\* The same, for behaviours under the steady inputs (SpecSteady): enough for
\* the tracker to walk from its initial target to a limit.
MaxSteadyReads == 7

\* ------------------------------------------------------ program constants

CV == 1
CC == 2
MPPT == 3
BP == 4

acs712VoltsPerAmp == 185
acs712Offset == 504

minPanelVoltage == 12000
maxPanelVoltage == 16000
trackingIncrement == 500
maxOutputCurrent == 3000

\* Upper limit of constrain(pwm, 0, 150), in thousandths.
PWM_MAX == 150000

\* delay(2000) in the undervoltage wait.
WaitDelay == 2000

\* ------------------------------------------------------------- the inputs

\* ADC counts of one acquisition: <<VSENSE_IN, ISENSE_OUT, VSENSE_OUT>>.
\* At the initial vcc of 4.5 V they read as
\*   <<186, 504, 180>>   9.0 V in, 0.2 V out           undervoltage
\*   <<330, 546, 250>>  16.0 V in, 3.7 V out, 1 A      below both limits
\*   <<240, 504, 150>>  11.6 V in, 4.3 V out           near 4.2 V, panel sagging
\*   <<298, 546, 210>>  14.4 V in, 4.1 V out, 1 A      near 4.2 V
\*   <<298, 504, 180>>  14.4 V in, 5.6 V out           output overvoltage
\*   <<330, 1023, 250>> 16.0 V in, 3.7 V out, 12 A     overcurrent
\*   <<240, 1023, 150>> 11.6 V in, 4.3 V out, 12 A     overcurrent, above 4.2 V
\*   <<290, 1023, 201>> 14.0 V in, 4.200 V out, 12 A   overcurrent, at 4.2 V
\* (one 12 A sample lifts the 4-sample average above the 3 A limit).
Samples ==
    { <<186, 504, 180>>, <<330, 546, 250>>, <<240, 504, 150>>,
      <<298, 546, 210>>, <<298, 504, 180>>, <<330, 1023, 250>>,
      <<240, 1023, 150>>, <<290, 1023, 201>> }

\* The steady inputs: a potentiometer left at its upper end (target 5.2 V), a
\* pass of loop() per second, and five acquisitions, which read at 5.0 V as
\*   <<186, 504, 180>>  10.0 V in, 0.2 V out           undervoltage
\*   <<330, 504, 250>>  17.7 V in, 4.2 V out, 0 A      below both limits
\*   <<330, 560, 250>>  17.7 V in, 4.2 V out, 1.5 A    below both limits
\*   <<330, 1023, 250>> 17.7 V in, 4.2 V out, 14 A     overcurrent
\*   <<298, 504, 180>>  16.0 V in, 6.2 V out           output overvoltage
\* Repeating the third lets the 4-sample average, and with it outputPower,
\* rise four times in a row.
SteadySamples ==
    { <<186, 504, 180>>, <<330, 504, 250>>, <<330, 560, 250>>,
      <<330, 1023, 250>>, <<298, 504, 180>> }

\* ADC counts of the potentiometer: both ends of its travel.
Pots == {0, 1023}

SteadyPots == {1023}

\* Results of readVcc(), in millivolts: the nominal supply of the 16 MHz build.
VccReadings == {5000}

\* Duration of one pass of loop(), in milliseconds.
Ticks == {50, 1000}

SteadyTicks == {1000}

\* ---------------------------------------------------------------- helpers

\* a / b rounded to the nearest integer (b > 0): a float division, to the
\* model's resolution.
RDiv(a, b) ==
    IF a >= 0 THEN (2 * a + b) \div (2 * b)
              ELSE 0 - ((2 * (0 - a) + b) \div (2 * b))

\* Conversion of a float to the int analogWrite takes: towards zero.
ToInt(x) ==
    IF x >= 0 THEN x \div 1000 ELSE 0 - ((0 - x) \div 1000)

\* constrain without its lower limit.
constrain_UpperOnly(amt, low, high) == IF amt > high THEN high ELSE amt

constrain(amt, low, high) ==
    IF amt < low THEN low ELSE IF amt > high THEN high ELSE amt

\* millis() - t, for a timestamp t taken earlier.
Elapsed(clock, t) == clock - t

\* readPot: analogRead(POT) / 1023.0 + 4.2.
readPot(pot) == RDiv(pot * 1000, 1023) + 4200

\* averageA: the window after the shift, and the average of the window.  The
\* newest entry is (counts - offset) * vcc / voltsPerAmp / 1024 in mA:
\* (counts - offset) * v * 1000 / (185 * 1024), with the fraction reduced by 8.
ShiftIn(raw, rawI, v) ==
    << RDiv((rawI - acs712Offset) * v * 125, acs712VoltsPerAmp * 128),
       raw[1], raw[2], raw[3] >>

average(raw) == RDiv(raw[1] + raw[2] + raw[3] + raw[4], 4)

\* readSensors: the conversions of the two voltage dividers.
InputVolts(rawIn, v) == RDiv(rawIn * v, 93)

OutputVolts(inV, rawOut, v) == inV - RDiv(rawOut * v, 92)

\* readSensors: outputPower, from the outputVoltage of the acquisition
\* before and the outputCurrent of this one.
Power(outV, outI) == RDiv(outV * outI, 1000)

\* ------------------------------------------------------- the controllers

\* The wait's condition with the two thresholds exchanged.
IsUndervoltage_Swapped(outV, inV) == outV < 15000 /\ inV < 1000

\* Condition of the undervoltage wait.
IsUndervoltage(outV, inV) == outV < 1000 /\ inV < 15000

\* The CV condition without its test of the current.
IsCV_VoltageOnly(outV, outI, target) == outV > target - 200

\* Conditions of the arbiter's branches, each as written in its if.
IsCV(outV, outI, target) == outV > target - 200 /\ outI <= maxOutputCurrent

\* The CC test without its voltage half.
IsCC_CurrentOnly(outV, outI, target) == outI > maxOutputCurrent

IsCC(outV, outI, target) == outI > maxOutputCurrent /\ outV < target

IsBP(outV, outI, target) == outI > maxOutputCurrent /\ outV > target

\* The protection's condition with a margin of 10.0 for 1.0.
IsOvervoltage_TenVolts(outV, target) == outV > target + 10000

\* Condition of the output overvoltage protection.
IsOvervoltage(outV, target) == outV > target + 1000

\* The CV branch without the panel sag term.
CVStep_NoSag(p, outV, inV, target) == p + (target - outV)

\* The CC branch with the operands of its difference exchanged.
CCStep_Reversed(p, outI) == p - (maxOutputCurrent - outI)

\* The arithmetic of the CV, CC and BP branches on the accumulator p.
CVStep(p, outV, inV, target) ==
    LET q == p + (target - outV)
    IN  IF inV < minPanelVoltage THEN q - (minPanelVoltage - inV) ELSE q

CCStep(p, outI) == p - (outI - maxOutputCurrent)

BPStep(p) == p - 1000

\* The direction sub-loop: the target after the move, the target it stores
\* and the direction it leaves.
Midpoint == RDiv(minPanelVoltage + maxPanelVoltage, 2)

Moved(target, down) ==
    IF down THEN target - trackingIncrement ELSE target + trackingIncrement

\* The limits tested on the target before the move instead of after it.
DirectionTarget_TestBeforeMove(target, down) ==
    IF target <= minPanelVoltage THEN Midpoint
    ELSE IF target >= maxPanelVoltage THEN Midpoint
    ELSE Moved(target, down)

\* The move without the snap back to the midpoint.
DirectionTarget_NoSnap(target, down) == Moved(target, down)

DirectionTarget(target, down) ==
    LET t == Moved(target, down)
    IN  IF t <= minPanelVoltage THEN Midpoint
        ELSE IF t >= maxPanelVoltage THEN Midpoint
        ELSE t

\* The direction reversed whenever the moved target reaches a limit.
DirectionDown_FlipOnSnap(target, down, delta) ==
    LET t == Moved(target, down)
    IN  IF t <= minPanelVoltage THEN ~down
        ELSE IF t >= maxPanelVoltage THEN ~down
        ELSE IF delta < 100 THEN ~down ELSE down

\* The gradient check made on every path, also after a snap to the midpoint.
DirectionDown_AlwaysChecked(target, down, delta) ==
    IF delta < 100 THEN ~down ELSE down

DirectionDown(target, down, delta) ==
    LET t == Moved(target, down)
    IN  IF t <= minPanelVoltage THEN down
        ELSE IF t >= maxPanelVoltage THEN down
        ELSE IF delta < 100 THEN ~down ELSE down

\* The convergence sub-loop.
ConvergenceStep(p, target, inV) == p - (target - inV)

\* ------------------------------------------------------------------ state

VARIABLES
    pc,                   \* position in loop(): "loop", "gate", "protect", "write"
    now,                  \* millis()
    lastMppt,             \* static timestamps of the two MPPT sub-loops
    lastCalc,
    lastVcc,              \* static timestamp of checkVcc
    vcc,
    targetOutputVoltage,
    raw,                  \* window of averageA, newest first
    inputVoltage,
    outputVoltage,
    outputCurrent,
    outputPower,
    outputPowerDelta,
    outputPowerPrevious,
    pwm,
    controlMode,
    trackingDownwards,
    targetPanelVoltage,
    duty,                 \* the value of the last analogWrite(PWM, ...)
    reads,                \* acquisitions made so far
    entry,                \* controller state on entry to mppt() of the current cycle
    waited,               \* the undervoltage wait ran in the current cycle
    beforeClamp,          \* the accumulator as the last constrain() received it
    outputVoltageBefore,  \* outputVoltage as the last acquisition found it
    writes,               \* calls of analogWrite(PWM, ...) in the current cycle
    lockedOut,            \* lockout() ran in the current cycle
    scene                 \* the inputs the behaviour draws from: "any" or "steady"

clock == <<now, lastMppt, lastCalc, lastVcc>>
snapshot ==
    <<raw, inputVoltage, outputVoltage, outputCurrent, outputPower,
      outputVoltageBefore>>
tracker ==
    <<outputPowerDelta, outputPowerPrevious, trackingDownwards, targetPanelVoltage>>
vars ==
    <<pc, clock, vcc, targetOutputVoltage, snapshot, tracker, pwm, controlMode,
      duty, reads, entry, waited, beforeClamp, writes, lockedOut, scene>>

\* The inputs of the behaviour's scene, and the acquisitions it may make.
SceneSamples == IF scene = "steady" THEN SteadySamples ELSE Samples

ScenePots == IF scene = "steady" THEN SteadyPots ELSE Pots

SceneTicks == IF scene = "steady" THEN SteadyTicks ELSE Ticks

SceneReads == IF scene = "steady" THEN MaxSteadyReads ELSE MaxReads

\* What entry records.
Entry ==
    [ pwm |-> pwm, controlMode |-> controlMode,
      targetPanelVoltage |-> targetPanelVoltage,
      trackingDownwards |-> trackingDownwards,
      outputPowerPrevious |-> outputPowerPrevious,
      lastMppt |-> lastMppt, lastCalc |-> lastCalc,
      lockedOut |-> lockedOut, reads |-> reads ]

\* The globals as declared, after setup() has switched the output off.
InitCommon ==
    /\ pc = "loop"
    /\ now = 0
    /\ lastMppt = 0
    /\ lastCalc = 0
    /\ lastVcc = 0
    /\ vcc = 4500
    /\ targetOutputVoltage = 4200
    /\ raw = <<0, 0, 0, 0>>
    /\ inputVoltage = 0
    /\ outputVoltage = 0
    /\ outputCurrent = 0
    /\ outputPower = 0
    /\ outputPowerDelta = 0
    /\ controlMode = 0
    /\ duty = 0
    /\ reads = 0
    /\ waited = FALSE
    /\ beforeClamp = 0
    /\ outputVoltageBefore = 0
    /\ writes = 0
    /\ lockedOut = FALSE

\* The sketch as shipped.
Init ==
    /\ InitCommon
    /\ scene = "any"
    /\ pwm = 0
    /\ outputPowerPrevious = 9999000
    /\ trackingDownwards = FALSE
    /\ targetPanelVoltage = 14000
    /\ entry = Entry

\* Values of <<pwm, targetPanelVoltage, trackingDownwards,
\* outputPowerPrevious>> that a long run of the shipped sketch passes through,
\* taken as starting points so that a few cycles reach the clamp's upper
\* limit and the tracker's two limits: the values at power-up; the accumulator
\* one step below its upper limit with the tracker one step below
\* maxPanelVoltage and moving up; the tracker one step above minPanelVoltage
\* and moving down (six cycles of rising power after power-up lead there).
\* Clock, filter window and snapshot start as at power-up.
RunningStarts ==
    { <<0, 14000, FALSE, 9999000>>,
      <<149000, 15500, FALSE, 1000>>,
      <<0, 12500, TRUE, 12000>> }

InitRunning ==
    /\ InitCommon
    /\ scene = "any"
    /\ \E s \in RunningStarts :
          /\ pwm = s[1]
          /\ targetPanelVoltage = s[2]
          /\ trackingDownwards = s[3]
          /\ outputPowerPrevious = s[4]
    /\ entry = Entry

\* The sketch built with the configuration variable targetPanelVoltage set
\* on one of the two limits, and the tracker moving either way.
InitAtLimit ==
    /\ InitCommon
    /\ scene = "any"
    /\ pwm = 0
    /\ outputPowerPrevious = 9999000
    /\ trackingDownwards \in BOOLEAN
    /\ targetPanelVoltage \in {minPanelVoltage, maxPanelVoltage}
    /\ entry = Entry

\* The sketch as shipped, under the steady inputs.
InitSteady ==
    /\ InitCommon
    /\ scene = "steady"
    /\ pwm = 0
    /\ outputPowerPrevious = 9999000
    /\ trackingDownwards = FALSE
    /\ targetPanelVoltage = 14000
    /\ entry = Entry

\* ---------------------------------------------------------------- actions

\* readSensors() with the ADC counts s, scaled with the reference voltage v.
\* readSensors() with the power computed after the new output voltage.
readSensors_FreshVoltage(s, v) ==
    LET inV == InputVolts(s[1], v)
        window == ShiftIn(raw, s[2], v)
        outI == average(window)
    IN  /\ inputVoltage' = inV
        /\ raw' = window
        /\ outputCurrent' = outI
        /\ outputVoltage' = OutputVolts(inV, s[3], v)
        /\ outputPower' = Power(outputVoltage', outI)
        /\ outputVoltageBefore' = outputVoltage

readSensors(s, v) ==
    LET inV == InputVolts(s[1], v)
        window == ShiftIn(raw, s[2], v)
        outI == average(window)
    IN  /\ inputVoltage' = inV
        /\ raw' = window
        /\ outputCurrent' = outI
        /\ outputPower' = Power(outputVoltage, outI)
        /\ outputVoltage' = OutputVolts(inV, s[3], v)
        /\ outputVoltageBefore' = outputVoltage

\* The reference voltage after checkVcc() at time t, when readVcc() gives reading.
VccAfter(t, reading) == IF Elapsed(t, lastVcc) >= 1000 THEN reading ELSE vcc

LastVccAfter(t) == IF Elapsed(t, lastVcc) >= 1000 THEN t ELSE lastVcc

\* loop(): readPot(), then mppt() up to the test of the undervoltage wait.
CycleStart ==
    /\ pc = "loop"
    /\ reads < SceneReads
    /\ \E pot \in ScenePots, s \in SceneSamples :
          /\ targetOutputVoltage' = readPot(pot)
          /\ readSensors(s, vcc)
    /\ entry' = Entry
    /\ waited' = FALSE
    /\ writes' = 0
    /\ lockedOut' = FALSE
    /\ reads' = reads + 1
    /\ pc' = "gate"
    /\ UNCHANGED <<clock, vcc, tracker, pwm, controlMode, duty, beforeClamp,
                   scene>>

\* A pass of the wait that also restarts the tracker.
UndervoltageWait_RestartsTracker ==
    /\ pc = "gate"
    /\ IsUndervoltage(outputVoltage, inputVoltage)
    /\ reads < SceneReads
    /\ pwm' = 0
    /\ duty' = ToInt(0)
    /\ writes' = writes + 1
    /\ now' = now + WaitDelay
    /\ \E reading \in VccReadings, s \in SceneSamples :
          /\ vcc' = VccAfter(now', reading)
          /\ lastVcc' = LastVccAfter(now')
          /\ readSensors(s, vcc')
    /\ waited' = TRUE
    /\ reads' = reads + 1
    /\ targetPanelVoltage' = Midpoint
    /\ trackingDownwards' = FALSE
    /\ UNCHANGED <<pc, lastMppt, lastCalc, targetOutputVoltage,
                   outputPowerDelta, outputPowerPrevious,
                   controlMode, entry, beforeClamp, lockedOut, scene>>

\* One pass of the body of the undervoltage wait.
UndervoltageWait ==
    /\ pc = "gate"
    /\ IsUndervoltage(outputVoltage, inputVoltage)
    /\ reads < SceneReads
    /\ pwm' = 0
    /\ duty' = ToInt(0)
    /\ writes' = writes + 1
    /\ now' = now + WaitDelay
    /\ \E reading \in VccReadings, s \in SceneSamples :
          /\ vcc' = VccAfter(now', reading)
          /\ lastVcc' = LastVccAfter(now')
          /\ readSensors(s, vcc')
    /\ waited' = TRUE
    /\ reads' = reads + 1
    /\ UNCHANGED <<pc, lastMppt, lastCalc, targetOutputVoltage, tracker,
                   controlMode, entry, beforeClamp, lockedOut, scene>>

\* The arbiter is reached once the wait's condition is false.
AtArbiter == pc = "gate" /\ ~IsUndervoltage(outputVoltage, inputVoltage)

ModeCV ==
    /\ AtArbiter
    /\ IsCV(outputVoltage, outputCurrent, targetOutputVoltage)
    /\ pwm' = CVStep(pwm, outputVoltage, inputVoltage, targetOutputVoltage)
    /\ controlMode' = CV
    /\ pc' = "protect"
    /\ UNCHANGED <<clock, vcc, targetOutputVoltage, snapshot, tracker, duty,
                   reads, entry, waited, beforeClamp, writes, lockedOut, scene>>

ModeCC ==
    /\ AtArbiter
    /\ ~IsCV(outputVoltage, outputCurrent, targetOutputVoltage)
    /\ IsCC(outputVoltage, outputCurrent, targetOutputVoltage)
    /\ pwm' = CCStep(pwm, outputCurrent)
    /\ controlMode' = CC
    /\ pc' = "protect"
    /\ UNCHANGED <<clock, vcc, targetOutputVoltage, snapshot, tracker, duty,
                   reads, entry, waited, beforeClamp, writes, lockedOut, scene>>

ModeBP ==
    /\ AtArbiter
    /\ ~IsCV(outputVoltage, outputCurrent, targetOutputVoltage)
    /\ ~IsCC(outputVoltage, outputCurrent, targetOutputVoltage)
    /\ IsBP(outputVoltage, outputCurrent, targetOutputVoltage)
    /\ pwm' = BPStep(pwm)
    /\ controlMode' = BP
    /\ pc' = "protect"
    /\ UNCHANGED <<clock, vcc, targetOutputVoltage, snapshot, tracker, duty,
                   reads, entry, waited, beforeClamp, writes, lockedOut, scene>>

\* The timers of the two sub-loops.
\* The period of the direction sub-loop a digit short.
DirectionDue_Short == Elapsed(now, lastMppt) >= 100

DirectionDue == Elapsed(now, lastMppt) >= 1000

ConvergenceDue == Elapsed(now, lastCalc) >= 50

\* The MPPT branch with the convergence step computed from the target as it
\* was before the direction step.
ModeMPPT_StaleTarget ==
    /\ AtArbiter
    /\ ~IsCV(outputVoltage, outputCurrent, targetOutputVoltage)
    /\ ~IsCC(outputVoltage, outputCurrent, targetOutputVoltage)
    /\ ~IsBP(outputVoltage, outputCurrent, targetOutputVoltage)
    /\ controlMode' = MPPT
    /\ IF DirectionDue
       THEN /\ lastMppt' = now
            /\ outputPowerDelta' = outputPower - outputPowerPrevious
            /\ targetPanelVoltage' =
                  DirectionTarget(targetPanelVoltage, trackingDownwards)
            /\ trackingDownwards' =
                  DirectionDown(targetPanelVoltage, trackingDownwards,
                                outputPowerDelta')
            /\ outputPowerPrevious' = outputPower
       ELSE UNCHANGED <<lastMppt, tracker>>
    /\ IF ConvergenceDue
       THEN /\ lastCalc' = now
            /\ pwm' = ConvergenceStep(pwm, targetPanelVoltage, inputVoltage)
       ELSE UNCHANGED <<lastCalc, pwm>>
    /\ pc' = "protect"
    /\ UNCHANGED <<now, lastVcc, vcc, targetOutputVoltage, snapshot, duty,
                   reads, entry, waited, beforeClamp, writes, lockedOut, scene>>

\* The MPPT branch with outputPowerPrevious stored on the gradient path only.
ModeMPPT_StoreOnGradientPath ==
    /\ AtArbiter
    /\ ~IsCV(outputVoltage, outputCurrent, targetOutputVoltage)
    /\ ~IsCC(outputVoltage, outputCurrent, targetOutputVoltage)
    /\ ~IsBP(outputVoltage, outputCurrent, targetOutputVoltage)
    /\ controlMode' = MPPT
    /\ IF DirectionDue
       THEN /\ lastMppt' = now
            /\ outputPowerDelta' = outputPower - outputPowerPrevious
            /\ targetPanelVoltage' =
                  DirectionTarget(targetPanelVoltage, trackingDownwards)
            /\ trackingDownwards' =
                  DirectionDown(targetPanelVoltage, trackingDownwards,
                                outputPowerDelta')
            /\ outputPowerPrevious' =
                  IF Moved(targetPanelVoltage, trackingDownwards) <= minPanelVoltage
                     \/ Moved(targetPanelVoltage, trackingDownwards) >= maxPanelVoltage
                  THEN outputPowerPrevious
                  ELSE outputPower
       ELSE UNCHANGED <<lastMppt, tracker>>
    /\ IF ConvergenceDue
       THEN /\ lastCalc' = now
            /\ pwm' = ConvergenceStep(pwm, targetPanelVoltage', inputVoltage)
       ELSE UNCHANGED <<lastCalc, pwm>>
    /\ pc' = "protect"
    /\ UNCHANGED <<now, lastVcc, vcc, targetOutputVoltage, snapshot, duty,
                   reads, entry, waited, beforeClamp, writes, lockedOut, scene>>

ModeMPPT ==
    /\ AtArbiter
    /\ ~IsCV(outputVoltage, outputCurrent, targetOutputVoltage)
    /\ ~IsCC(outputVoltage, outputCurrent, targetOutputVoltage)
    /\ ~IsBP(outputVoltage, outputCurrent, targetOutputVoltage)
    /\ controlMode' = MPPT
    /\ IF DirectionDue
       THEN /\ lastMppt' = now
            /\ outputPowerDelta' = outputPower - outputPowerPrevious
            /\ targetPanelVoltage' =
                  DirectionTarget(targetPanelVoltage, trackingDownwards)
            /\ trackingDownwards' =
                  DirectionDown(targetPanelVoltage, trackingDownwards,
                                outputPowerDelta')
            /\ outputPowerPrevious' = outputPower
       ELSE UNCHANGED <<lastMppt, tracker>>
    /\ IF ConvergenceDue
       THEN /\ lastCalc' = now
            /\ pwm' = ConvergenceStep(pwm, targetPanelVoltage', inputVoltage)
       ELSE UNCHANGED <<lastCalc, pwm>>
    /\ pc' = "protect"
    /\ UNCHANGED <<now, lastVcc, vcc, targetOutputVoltage, snapshot, duty,
                   reads, entry, waited, beforeClamp, writes, lockedOut, scene>>

\* The protection line with a lockout that stays on once it has fired.
Protect_Latched ==
    /\ pc = "protect"
    /\ IF IsOvervoltage(outputVoltage, targetOutputVoltage) \/ entry.lockedOut
       THEN /\ pwm' = 0
            /\ duty' = ToInt(0)
            /\ writes' = writes + 1
            /\ lockedOut' = TRUE
       ELSE UNCHANGED <<pwm, duty, writes, lockedOut>>
    /\ pc' = "write"
    /\ UNCHANGED <<clock, vcc, targetOutputVoltage, snapshot, tracker,
                   controlMode, reads, entry, waited, beforeClamp, scene>>

\* The protection line with a lockout() that zeroes pwm and leaves the write
\* to the end of the cycle.
Protect_SilentLockout ==
    /\ pc = "protect"
    /\ IF IsOvervoltage(outputVoltage, targetOutputVoltage)
       THEN /\ pwm' = 0
            /\ lockedOut' = TRUE
            /\ UNCHANGED <<duty, writes>>
       ELSE UNCHANGED <<pwm, duty, writes, lockedOut>>
    /\ pc' = "write"
    /\ UNCHANGED <<clock, vcc, targetOutputVoltage, snapshot, tracker,
                   controlMode, reads, entry, waited, beforeClamp, scene>>

\* The protection line: lockout() on output overvoltage.
Protect ==
    /\ pc = "protect"
    /\ IF IsOvervoltage(outputVoltage, targetOutputVoltage)
       THEN /\ pwm' = 0
            /\ duty' = ToInt(0)
            /\ writes' = writes + 1
            /\ lockedOut' = TRUE
       ELSE UNCHANGED <<pwm, duty, writes, lockedOut>>
    /\ pc' = "write"
    /\ UNCHANGED <<clock, vcc, targetOutputVoltage, snapshot, tracker,
                   controlMode, reads, entry, waited, beforeClamp, scene>>

\* The end of mppt() with the clamp applied to the value written only.
WritePwm_ClampSentOnly ==
    /\ pc = "write"
    /\ beforeClamp' = pwm
    /\ pwm' = pwm
    /\ duty' = ToInt(constrain(pwm, 0, PWM_MAX))
    /\ \E reading \in VccReadings :
          /\ vcc' = VccAfter(now, reading)
          /\ lastVcc' = LastVccAfter(now)
    /\ writes' = writes + 1
    /\ \E dt \in SceneTicks : now' = now + dt
    /\ pc' = "loop"
    /\ UNCHANGED <<lastMppt, lastCalc, targetOutputVoltage, snapshot, tracker,
                   controlMode, reads, entry, waited, lockedOut, scene>>

\* The clamp and the write that end mppt(), then led() and checkVcc(), and the
\* time the pass of loop() took.
WritePwm ==
    /\ pc = "write"
    /\ beforeClamp' = pwm
    /\ pwm' = constrain(pwm, 0, PWM_MAX)
    /\ duty' = ToInt(pwm')
    /\ \E reading \in VccReadings :
          /\ vcc' = VccAfter(now, reading)
          /\ lastVcc' = LastVccAfter(now)
    /\ writes' = writes + 1
    /\ \E dt \in SceneTicks : now' = now + dt
    /\ pc' = "loop"
    /\ UNCHANGED <<lastMppt, lastCalc, targetOutputVoltage, snapshot, tracker,
                   controlMode, reads, entry, waited, lockedOut, scene>>

Next ==
    \/ CycleStart
    \/ UndervoltageWait
    \/ ModeCV
    \/ ModeCC
    \/ ModeBP
    \/ ModeMPPT
    \/ Protect
    \/ WritePwm

Spec == Init /\ [][Next]_vars

SpecRunning == InitRunning /\ [][Next]_vars

SpecAtLimit == InitAtLimit /\ [][Next]_vars

SpecSteady == InitSteady /\ [][Next]_vars

\* ----------------------------------------------------------- the claims

\* The arbiter has run in the current cycle; the protection line and the
\* clamp have not.
AfterArbiter == pc = "protect"

\* A cycle has run to its end: duty is its final write, the snapshot and the
\* target are the ones it decided on.
CycleEnded == pc = "loop" /\ reads > 0

\* C1: once a cycle has passed the undervoltage wait, controlMode is CV if
\* outputVoltage > targetOutputVoltage - 0.2 and outputCurrent <=
\* maxOutputCurrent; else CC if outputCurrent > maxOutputCurrent and
\* outputVoltage < targetOutputVoltage; else BP if outputCurrent >
\* maxOutputCurrent and outputVoltage > targetOutputVoltage; else MPPT; and it
\* keeps that value to the end of the cycle.
C1_ModeMatchesSnapshot ==
    (pc \in {"protect", "write"} \/ CycleEnded) =>
        /\ controlMode \in {CV, CC, MPPT, BP}
        /\ controlMode =
              IF outputVoltage > targetOutputVoltage - 200 /\ outputCurrent <= 3000
              THEN CV
              ELSE IF outputCurrent > 3000 /\ outputVoltage < targetOutputVoltage
              THEN CC
              ELSE IF outputCurrent > 3000 /\ outputVoltage > targetOutputVoltage
              THEN BP
              ELSE MPPT

\* C1's case: the last branch taken although the current is over the limit,
\* because outputVoltage equals targetOutputVoltage.
C1_Witness ==
    /\ AfterArbiter
    /\ controlMode = MPPT
    /\ outputCurrent > 3000
    /\ outputVoltage = targetOutputVoltage

\* C2: a cycle whose snapshot has outputVoltage > targetOutputVoltage + 1.0
\* ends with 0 written to the PWM output.
C2_OvervoltageWritesZero ==
    (CycleEnded /\ outputVoltage > targetOutputVoltage + 1000) => duty = 0

\* C2's case: the overvoltage cycle began with an accumulator that the mode's
\* arithmetic alone would have left at 100 or more.
C2_Witness ==
    /\ CycleEnded
    /\ outputVoltage > targetOutputVoltage + 1000
    /\ entry.pwm >= 140000
    /\ ~waited
    /\ duty = 0

\* C3: every value written to the PWM output lies in 0..150 (duty is the
\* value of the latest write, and every write is a state of its own).
C3_DutyInRange == duty \in 0..150

\* C3's case: the accumulator was above the range when the cycle's last write
\* was made.
C3_Witness == CycleEnded /\ beforeClamp > 150000 /\ duty = 150

\* C4 as stated: the clamp touches only the value sent, so the end of a
\* cycle leaves the accumulator as the mode's arithmetic and the protection
\* left it.
C4_AccumulatorNotClamped == CycleEnded => pwm = beforeClamp

\* C4 as amended: the clamp is stored back into the accumulator; between
\* cycles the accumulator lies in [0, PWM_MAX], and it is outside that range
\* only between a mode's arithmetic and the clamp of the same cycle.
C4_AccumulatorClamped ==
    /\ pc \in {"loop", "gate"} => (pwm >= 0 /\ pwm <= 150000)
    /\ CycleEnded =>
          pwm = IF beforeClamp < 0 THEN 0
                ELSE IF beforeClamp > 150000 THEN 150000
                ELSE beforeClamp

\* C4's case: a cycle pushed the accumulator out of the range and the value
\* carried into the next cycle is the limit.
C4_Witness ==
    \/ CycleEnded /\ beforeClamp > 150000 /\ pwm = 150000
    \/ CycleEnded /\ beforeClamp < 0 /\ pwm = 0

\* C5: a cycle does not reach the arbiter on a snapshot with outputVoltage <
\* 1.0 and inputVoltage < 15.0; each pass of the wait writes 0 and zeroes the
\* accumulator; the arbiter runs on the first re-sample that fails the test.
C5_WaitHoldsBackArbiter ==
    /\ pc \in {"protect", "write"} =>
          ~(outputVoltage < 1000 /\ inputVoltage < 15000)
    /\ (pc = "gate" /\ waited) => (duty = 0 /\ pwm = 0)
    /\ (pc = "gate" /\ outputVoltage < 1000 /\ inputVoltage < 15000) =>
          ~(ENABLED ModeCV \/ ENABLED ModeCC \/ ENABLED ModeBP \/ ENABLED ModeMPPT)

\* C5's case: the wait ran, started from a non-zero accumulator, and the
\* arbiter then ran on the re-sample.
C5_Witness == AfterArbiter /\ waited /\ entry.pwm > 0

\* The direction sub-loop, the convergence sub-loop ran in the current cycle:
\* each stores the time, which is at least its period later than the time
\* stored before.
DirectionRan == AfterArbiter /\ lastMppt # entry.lastMppt

ConvergenceRan == AfterArbiter /\ lastCalc # entry.lastCalc

\* The accumulator as the arbiter found it: 0 after the undervoltage wait,
\* else the value the cycle began with.
AtArbiterPwm == IF waited THEN 0 ELSE entry.pwm

C7_LowGradientAlwaysFlips ==
    (DirectionRan /\ outputPower - entry.outputPowerPrevious < 100) =>
        trackingDownwards = ~entry.trackingDownwards

\* C7 as amended: the direction sub-loop, run with outputPower -
\* outputPowerPrevious < 0.1, inverts trackingDownwards when the moved target
\* lies strictly between minPanelVoltage and maxPanelVoltage; when the moved
\* target is on or beyond a limit it leaves trackingDownwards as it was.
C7_LowGradientFlipsInsideLimits ==
    (DirectionRan /\ outputPower - entry.outputPowerPrevious < 100) =>
        LET moved == IF entry.trackingDownwards
                     THEN entry.targetPanelVoltage - 500
                     ELSE entry.targetPanelVoltage + 500
        IN  trackingDownwards =
               IF 12000 < moved /\ moved < 16000
               THEN ~entry.trackingDownwards
               ELSE entry.trackingDownwards

\* C7's case: a low gradient and a flip from upwards to downwards.
C7_Witness ==
    /\ DirectionRan
    /\ outputPower - entry.outputPowerPrevious < 100
    /\ ~entry.trackingDownwards
    /\ trackingDownwards

\* C8 as stated: when the convergence sub-loop has run, the accumulator is
\* its value at the start of the cycle minus (targetPanelVoltage -
\* inputVoltage), with the target as the direction step of the cycle left it.
C8_ConvergenceFromCycleStart ==
    ConvergenceRan =>
        pwm = entry.pwm - (targetPanelVoltage - inputVoltage)

\* C8 as amended: when the convergence sub-loop has run, the accumulator is
\* the value the arbiter found (the cycle's start value, or 0 when the
\* undervoltage wait ran in the cycle) minus (targetPanelVoltage -
\* inputVoltage), with the target as the direction step of the cycle left it.
C8_ConvergenceFromArbiter ==
    ConvergenceRan =>
        pwm = AtArbiterPwm - (targetPanelVoltage - inputVoltage)

\* C8's case: direction step and convergence step in one cycle, the target
\* changed by the former, the accumulator not zero before.
C8_Witness ==
    /\ ConvergenceRan
    /\ DirectionRan
    /\ targetPanelVoltage # entry.targetPanelVoltage
    /\ entry.pwm > 0

\* C9 as stated: after the arbiter chose CV, the accumulator is its value at
\* the start of the cycle plus (targetOutputVoltage - outputVoltage), minus
\* (minPanelVoltage - inputVoltage) exactly when inputVoltage <
\* minPanelVoltage.
C9_CVFromCycleStart ==
    (AfterArbiter /\ controlMode = CV) =>
        pwm = entry.pwm + (targetOutputVoltage - outputVoltage)
                - (IF inputVoltage < 12000 THEN 12000 - inputVoltage ELSE 0)

\* C9 as amended: the same sum, taken from the value the arbiter found (the
\* cycle's start value, or 0 when the undervoltage wait ran in the cycle).
C9_CVFromArbiter ==
    (AfterArbiter /\ controlMode = CV) =>
        pwm = AtArbiterPwm + (targetOutputVoltage - outputVoltage)
                - (IF inputVoltage < 12000 THEN 12000 - inputVoltage ELSE 0)

\* C9's case: CV with the panel below minPanelVoltage, from a non-zero
\* accumulator.
C9_Witness ==
    /\ AfterArbiter
    /\ controlMode = CV
    /\ inputVoltage < 12000
    /\ entry.pwm > 0

\* C10 as stated: after the arbiter chose CC, the accumulator is its value at
\* the start of the cycle minus (outputCurrent - maxOutputCurrent), which is
\* positive; after it chose BP, the start value minus 1.
C10_CCBPFromCycleStart ==
    /\ (AfterArbiter /\ controlMode = CC) =>
          /\ pwm = entry.pwm - (outputCurrent - 3000)
          /\ outputCurrent - 3000 > 0
    /\ (AfterArbiter /\ controlMode = BP) => pwm = entry.pwm - 1000

\* C10 as amended: the same differences, taken from the value the arbiter
\* found (the cycle's start value, or 0 when the undervoltage wait ran in the
\* cycle).
C10_CCBPFromArbiter ==
    /\ (AfterArbiter /\ controlMode = CC) =>
          /\ pwm = AtArbiterPwm - (outputCurrent - 3000)
          /\ outputCurrent - 3000 > 0
    /\ (AfterArbiter /\ controlMode = BP) => pwm = AtArbiterPwm - 1000

\* C10's case: CC from a non-zero accumulator.
C10_Witness ==
    /\ AfterArbiter
    /\ controlMode = CC
    /\ entry.pwm > 0
    /\ pwm = entry.pwm - (outputCurrent - 3000)

\* Passes of the undervoltage wait made in the current cycle: every
\* acquisition of the cycle but its first.
WaitPasses == reads - entry.reads - 1

\* The target as the direction sub-loop of the current cycle moved it, before
\* its tests of the limits.
MovedFromEntry ==
    IF entry.trackingDownwards
    THEN entry.targetPanelVoltage - 500
    ELSE entry.targetPanelVoltage + 500

\* C11 as stated: every cycle, a lockout cycle too, makes exactly one write
\* to the PWM output.
C11_OneWritePerCycle == CycleEnded => writes = 1

\* C11 as amended: a cycle writes the clamped duty once, at its end; before
\* that it writes 0 once in each pass of the undervoltage wait and once more
\* when the lockout runs.  A cycle with neither makes exactly one write, a
\* lockout cycle without a wait exactly two.
C11_WritesPerCycle ==
    CycleEnded =>
        /\ writes = 1 + WaitPasses + (IF lockedOut THEN 1 ELSE 0)
        /\ lockedOut = (outputVoltage > targetOutputVoltage + 1000)
        /\ waited = (WaitPasses > 0)

\* C11's case: a lockout cycle without a wait, with its two writes.
C11_Witness == CycleEnded /\ lockedOut /\ ~waited /\ writes = 2

C13_SnapKeepsDirection ==
    (DirectionRan /\ (MovedFromEntry <= 12000 \/ MovedFromEntry >= 16000)) =>
        /\ targetPanelVoltage = 14000
        /\ trackingDownwards = entry.trackingDownwards

\* C13's case: a snap at the upper limit with a power delta below 0.1.
C13_Witness ==
    /\ DirectionRan
    /\ MovedFromEntry >= 16000
    /\ outputPower - entry.outputPowerPrevious < 100
    /\ targetPanelVoltage = 14000
    /\ ~trackingDownwards

\* C14: once the direction sub-loop has run in a cycle, outputPowerPrevious
\* is the cycle's outputPower, on each of its paths; as long as it has not
\* run in a cycle, outputPowerPrevious, targetPanelVoltage and
\* trackingDownwards are what they were when the cycle began.
C14_TrackerMemory ==
    /\ lastMppt # entry.lastMppt => outputPowerPrevious = outputPower
    /\ lastMppt = entry.lastMppt =>
          /\ outputPowerPrevious = entry.outputPowerPrevious
          /\ targetPanelVoltage = entry.targetPanelVoltage
          /\ trackingDownwards = entry.trackingDownwards

\* C14's case: the power stored on a snap path.
C14_Witness ==
    /\ DirectionRan
    /\ (MovedFromEntry <= 12000 \/ MovedFromEntry >= 16000)
    /\ outputPowerPrevious = outputPower
    /\ outputPowerPrevious # entry.outputPowerPrevious

\* C15: after any number of passes of the undervoltage wait, controlMode,
\* targetPanelVoltage, trackingDownwards, outputPowerPrevious and the
\* timestamps of the two MPPT sub-loops are what they were when the cycle
\* began, and pwm is 0.
C15_WaitKeepsModeState ==
    (pc = "gate" /\ waited) =>
        /\ controlMode = entry.controlMode
        /\ targetPanelVoltage = entry.targetPanelVoltage
        /\ trackingDownwards = entry.trackingDownwards
        /\ outputPowerPrevious = entry.outputPowerPrevious
        /\ lastMppt = entry.lastMppt
        /\ lastCalc = entry.lastCalc
        /\ pwm = 0

\* C15's case: a wait in a cycle that follows one which chose a mode, with
\* the tracker away from its initial target and a new snapshot.
C15_Witness ==
    /\ pc = "gate"
    /\ waited
    /\ entry.controlMode # 0
    /\ entry.targetPanelVoltage # 14000
    /\ outputVoltage # outputVoltageBefore

\* The accumulator as the selected mode of the current cycle leaves it when
\* the lockout does not run, computed from the accumulator p.
ModeResult(p) ==
    IF controlMode = CV
    THEN p + (targetOutputVoltage - outputVoltage)
           - (IF inputVoltage < 12000 THEN 12000 - inputVoltage ELSE 0)
    ELSE IF controlMode = CC THEN p - (outputCurrent - 3000)
    ELSE IF controlMode = BP THEN p - 1000
    ELSE IF lastCalc # entry.lastCalc
         THEN p - (targetPanelVoltage - inputVoltage)
         ELSE p

\* C16: a cycle whose snapshot has outputVoltage <= targetOutputVoltage + 1.0
\* does not run the lockout, even when the cycle before did; the duty it
\* writes is the result of its mode clamped to [0, 150]; and when the cycle
\* before was a lockout cycle, that result is computed from an accumulator
\* of 0.
C16_LockoutNotLatched ==
    (CycleEnded /\ outputVoltage <= targetOutputVoltage + 1000) =>
        /\ ~lockedOut
        /\ writes = 1 + WaitPasses
        /\ beforeClamp = ModeResult(AtArbiterPwm)
        /\ duty = (IF beforeClamp < 0 THEN 0
                   ELSE IF beforeClamp > 150000 THEN 150
                   ELSE beforeClamp \div 1000)
        /\ entry.lockedOut => (entry.pwm = 0 /\ beforeClamp = ModeResult(0))

\* C16's case: the cycle after a lockout cycle, without overvoltage, raising
\* the duty from 0.
C16_Witness ==
    /\ CycleEnded
    /\ entry.lockedOut
    /\ ~lockedOut
    /\ outputVoltage <= targetOutputVoltage + 1000
    /\ duty > 0

\* C17: after every acquisition outputPower is the product of the
\* outputVoltage of the acquisition before and the outputCurrent of this one,
\* in the undervoltage wait too.
C17_PowerFromPreviousVoltage ==
    reads > 0 => outputPower = (outputVoltageBefore * outputCurrent + 500) \div 1000

\* C17's case: a re-sample in the wait whose output voltage differs from the
\* one before, with current flowing.
C17_Witness ==
    /\ pc = "gate"
    /\ waited
    /\ outputVoltageBefore > 0
    /\ outputVoltage # outputVoltageBefore
    /\ outputCurrent > 0
    /\ outputPower > 0

C19_TargetStrictlyInside ==
    pc = "loop" => (12000 < targetPanelVoltage /\ targetPanelVoltage < 16000)

\* C19's case: the tracker walked from 14.0 down to 12.5 and its next move
\* reached minPanelVoltage.
C19_Witness ==
    /\ CycleEnded
    /\ lastMppt # entry.lastMppt
    /\ entry.targetPanelVoltage = 12500
    /\ entry.trackingDownwards
    /\ targetPanelVoltage = 14000

\* C20: a cycle in which the lockout ran chose CV or BP, and ran neither
\* the direction nor the convergence sub-loop.
C20_LockoutModes ==
    lockedOut =>
        /\ outputVoltage > targetOutputVoltage + 1000
        /\ controlMode \in {CV, BP}
        /\ lastMppt = entry.lastMppt
        /\ lastCalc = entry.lastCalc

\* C20's case: a lockout with overcurrent, chosen BP.
C20_Witness ==
    /\ lockedOut
    /\ controlMode = BP
    /\ outputCurrent > 3000

====
